---- MODULE Spec2Model ----
(***************************************************************************)
(* A model of beancount2/web/web.py: the lazily populated view cache       *)
(* (handle_view and app.views), the balance iterator                       *)
(* (iterate_with_balance), the rendering of account trees                  *)
(* (table_of_balances) and the construction of views (View._realize and    *)
(* the four filters).                                                      *)
(*                                                                         *)
(* Strings that the code takes apart (request paths) are sequences of      *)
(* one-character strings, so that split and join are computed.             *)
(***************************************************************************)
EXTENDS Integers, Sequences, FiniteSets, TLC

VARIABLES
    \* ---- view cache (handle_view, app.views) ----
    views,        \* app.views: scope key -> View instance
    pc,           \* per worker: where its request is inside wrapper()
    request,      \* per worker: the request being served
    viewid,       \* per worker: wrapper's local viewid
    view,         \* per worker: wrapper's local view (0 is unset)
    nrequests,    \* number of requests accepted so far
    ninstances,   \* number of View objects constructed so far
    built,        \* history: scope key -> number of callback calls that returned a View
    failed,       \* history: the scope keys whose callback has raised
    constructing, \* per worker: the View its callback is constructing (0 is none)
    realized,     \* the Views whose _realize has set the three trees
    \* ---- balance iterator (iterate_with_balance) ----
    entries,      \* the argument: the input sequence
    ipc,          \* position of the generator
    pos,          \* number of input items consumed by the for loop
    prev_date,    \* local prev_date (0 is None)
    date_entries, \* local date_entries: sequence of (entry, postings) pairs
    flush_i,      \* number of pairs of date_entries already flushed
    balance,      \* local balance: the running Inventory
    out,          \* history: the records yielded so far
    nruns,        \* history: number of date runs begun
    \* ---- account tree rendering (table_of_balances) ----
    tree,         \* the RealAccount tree: node name -> its postings and balance
    rpc,          \* position of table_of_balances
    start_node_name, \* the argument: the node the traversal starts from
    currencies,   \* the argument: the operating currencies, in order
    active_set,   \* local active_set
    lines,        \* tree_table's local lines, reduced to the node names
    line_i,       \* number of lines taken by the for loop
    rows,         \* the rows written to oss so far
    \* ---- view construction (View.__init__, View._realize) ----
    all_entries,  \* the ledger the views are built from
    scope,        \* which View subclass is constructed, and its parameter
    vpc,          \* position of the constructor
    self,         \* the View instance under construction: its attributes
    page,         \* what the last page of this View was rendered with (None before)
    \* ---- identifiers (compute_ids) ----
    strings,      \* the argument: a collection of strings, as given
    cpc,          \* position of compute_ids
    scheme_i,     \* number of (regexp, replacement) pairs the for loop has taken
    remaining,    \* the strings of string_set the inner loop has not taken yet
    idmap,        \* local idmap: id -> list of strings
    result        \* the value returned (None before)

cacheVars == <<views, pc, request, viewid, view, nrequests, ninstances,
               built, failed, constructing, realized>>
iterVars  == <<entries, ipc, pos, prev_date, date_entries, flush_i, balance, out,
               nruns>>
treeVars  == <<tree, rpc, start_node_name, currencies, active_set, lines, line_i,
               rows>>
viewVars  == <<all_entries, scope, vpc, self, page>>
idVars    == <<strings, cpc, scheme_i, remaining, idmap, result>>
vars      == <<cacheVars, iterVars, treeVars, viewVars, idVars>>

-----------------------------------------------------------------------------
(* Bounds *)

NumWorkers  == 2
MaxRequests == 2
MaxLen      == 3

-----------------------------------------------------------------------------
(* Generic helpers *)

Min(a, b) == IF a < b THEN a ELSE b

\* The function f extended or overwritten at k.
Put(f, k, v) == [ x \in (DOMAIN f) \cup {k} |-> IF x = k THEN v ELSE f[x] ]

-----------------------------------------------------------------------------
(* Request paths and scope keys *)

SEP == "/"

W_view  == <<"v", "i", "e", "w">>
W_all   == <<"a", "l", "l">>
W_year  == <<"y", "e", "a", "r">>
W_tag   == <<"t", "a", "g">>
W_payee == <<"p", "a", "y", "e", "e">>

Y2012 == <<"2", "0", "1", "2">>
Y2013 == <<"2", "0", "1", "3">>

Routes == {"all", "year", "tag", "payee"}

RouteWord(route) ==
    CASE route = "all"   -> W_all
      [] route = "year"  -> W_year
      [] route = "tag"   -> W_tag
      [] route = "payee" -> W_payee

\* The pages of a view: the <path:re:.*> tail of a route, possibly empty,
\* possibly with further slashes.
Pages == { <<>>, <<"a", "/", "b">> }

\* The parameters tried on each route: <year:re:\d\d\d\d> and the like.
Params(route) ==
    CASE route = "all"   -> { <<>> }
      [] route = "year"  -> { Y2012, Y2013 }
      [] route = "tag"   -> { Y2012 }
      [] route = "payee" -> { Y2012 }

RoutePages(route) == IF route \in {"all", "year"} THEN Pages ELSE { <<>> }

\* The requests that the four view routes match.
Requests ==
    { [route |-> r, param |-> p, page |-> g] :
        r \in Routes, p \in { Y2012, Y2013, <<>> }, g \in Pages }

Routed ==
    { r \in Requests : r.param \in Params(r.route) /\ r.page \in RoutePages(r.route) }

\* request.path of a routed request.
RequestPath(r) ==
    <<SEP>> \o W_view \o <<SEP>> \o RouteWord(r.route) \o <<SEP>>
      \o (IF r.route = "all" THEN <<>> ELSE r.param \o <<SEP>>)
      \o r.page

\* A depth of 2 on every route, which leaves the parameter out of the key.
PathDepthYearMerged(route) == 2

\* The argument of @handle_view on each route.
path_depth(route) == IF route = "all" THEN 2 ELSE 3

\* str.split(sep): the pieces between the separators, empty pieces included.
RECURSIVE SplitFrom(_, _, _, _)
SplitFrom(s, sep, i, cur) ==
    IF i > Len(s) THEN <<cur>>
    ELSE IF s[i] = sep THEN <<cur>> \o SplitFrom(s, sep, i + 1, <<>>)
    ELSE SplitFrom(s, sep, i + 1, Append(cur, s[i]))

Split(s, sep) == SplitFrom(s, sep, 1, <<>>)

\* sep.join(parts)
RECURSIVE Join(_, _)
Join(parts, sep) ==
    IF Len(parts) = 0 THEN <<>>
    ELSE IF Len(parts) = 1 THEN parts[1]
    ELSE parts[1] \o <<sep>> \o Join(Tail(parts), sep)

\* components[:n]
Slice(s, n) == SubSeq(s, 1, Min(n, Len(s)))

\* wrapper's viewid for a request path.
ViewId(path, depth) == Join(Slice(Split(path, SEP), depth + 1), SEP)

AllKeys == { ViewId(RequestPath(r), path_depth(r.route)) : r \in Routed }

-----------------------------------------------------------------------------------------------------------------------------------------------------
(* The view cache: handle_view's wrapper around a view factory *)

Workers == 1..NumWorkers

NoRequest == [route |-> "none", param |-> <<>>, page |-> <<>>]

\* The factories of the routes: all() and year() build a View; tag() and
\* payee() format their string argument with '{:4d}', which raises ValueError
\* before any View is built.
FactoryCanReturn(route) == route \in {"all", "year"}

CacheInit ==
    /\ views = << >>
    /\ pc = [t \in Workers |-> "idle"]
    /\ request = [t \in Workers |-> NoRequest]
    /\ viewid = [t \in Workers |-> <<>>]
    /\ view = [t \in Workers |-> 0]
    /\ nrequests = 0
    /\ ninstances = 0
    /\ built = [k \in AllKeys |-> 0]
    /\ failed = {}
    /\ constructing = [t \in Workers |-> 0]
    /\ realized = {}

\* The router hands a matching request to the decorated handler.
Accept(t, r) ==
    /\ pc[t] = "idle"
    /\ nrequests < MaxRequests
    /\ nrequests' = nrequests + 1
    /\ request' = [request EXCEPT ![t] = r]
    /\ pc' = [pc EXCEPT ![t] = "wrapper"]
    /\ UNCHANGED <<views, viewid, view, ninstances, built, failed, constructing, realized>>
    /\ UNCHANGED <<iterVars, treeVars, viewVars, idVars>>

\* wrapper(): compute viewid and try the cache.
Lookup(t) ==
    /\ pc[t] = "wrapper"
    /\ LET id == ViewId(RequestPath(request[t]), path_depth(request[t].route))
       IN /\ viewid' = [viewid EXCEPT ![t] = id]
          /\ IF id \in DOMAIN views
             THEN /\ view' = [view EXCEPT ![t] = views[id]]
                  /\ pc' = [pc EXCEPT ![t] = "redirect"]
             ELSE /\ pc' = [pc EXCEPT ![t] = "callback"]
                  /\ UNCHANGED view
    /\ UNCHANGED <<views, request, nrequests, ninstances, built, failed, constructing, realized>>
    /\ UNCHANGED <<iterVars, treeVars, viewVars, idVars>>

\* A constructor that puts the View into app.views before _realize.
CallbackConstructsPublished(t) ==
    /\ pc[t] = "callback"
    /\ FactoryCanReturn(request[t].route)
    /\ ninstances' = ninstances + 1
    /\ constructing' = [constructing EXCEPT ![t] = ninstances + 1]
    /\ views' = Put(views, viewid[t], ninstances + 1)
    /\ pc' = [pc EXCEPT ![t] = "realizing"]
    /\ UNCHANGED <<request, viewid, view, nrequests, built, failed, realized>>
    /\ UNCHANGED <<iterVars, treeVars, viewVars, idVars>>

\* except KeyError: callback(*args, **kwargs) constructs a View: __init__ has
\* set the attributes, the three trees are None, _realize is to run. The View
\* is known to the callback only.
CallbackConstructs(t) ==
    /\ pc[t] = "callback"
    /\ FactoryCanReturn(request[t].route)
    /\ ninstances' = ninstances + 1
    /\ constructing' = [constructing EXCEPT ![t] = ninstances + 1]
    /\ pc' = [pc EXCEPT ![t] = "realizing"]
    /\ UNCHANGED <<views, request, viewid, view, nrequests, built, failed, realized>>
    /\ UNCHANGED <<iterVars, treeVars, viewVars, idVars>>

\* _realize is through, __init__ returns and callback(*args, **kwargs) returns
\* the View.
CallbackReturns(t) ==
    /\ pc[t] = "realizing"
    /\ realized' = realized \cup { constructing[t] }
    /\ view' = [view EXCEPT ![t] = constructing[t]]
    /\ constructing' = [constructing EXCEPT ![t] = 0]
    /\ built' = [built EXCEPT ![viewid[t]] = @ + 1]
    /\ pc' = [pc EXCEPT ![t] = "store"]
    /\ UNCHANGED <<views, request, viewid, nrequests, ninstances, failed>>
    /\ UNCHANGED <<iterVars, treeVars, viewVars, idVars>>

\* A wrapper() that keeps the failure in the cache, as entry 0.
CallbackRaisesMemoized(t) ==
    /\ pc[t] \in {"callback", "realizing"}
    /\ failed' = failed \cup { viewid[t] }
    /\ views' = Put(views, viewid[t], 0)
    /\ request' = [request EXCEPT ![t] = NoRequest]
    /\ viewid' = [viewid EXCEPT ![t] = <<>>]
    /\ constructing' = [constructing EXCEPT ![t] = 0]
    /\ pc' = [pc EXCEPT ![t] = "idle"]
    /\ UNCHANGED <<view, nrequests, ninstances, built, realized>>
    /\ UNCHANGED <<iterVars, treeVars, viewVars, idVars>>

\* except KeyError: callback(*args, **kwargs) raises, in the factory or in the
\* _realize of the View it constructs; the exception leaves wrapper() before the
\* assignment to app.views[viewid], and the request ends.
CallbackRaises(t) ==
    /\ pc[t] \in {"callback", "realizing"}
    /\ failed' = failed \cup { viewid[t] }
    /\ request' = [request EXCEPT ![t] = NoRequest]
    /\ viewid' = [viewid EXCEPT ![t] = <<>>]
    /\ constructing' = [constructing EXCEPT ![t] = 0]
    /\ pc' = [pc EXCEPT ![t] = "idle"]
    /\ UNCHANGED <<views, view, nrequests, ninstances, built, realized>>
    /\ UNCHANGED <<iterVars, treeVars, viewVars, idVars>>

\* view = app.views[viewid] = <the callback's result>
Store(t) ==
    /\ pc[t] = "store"
    /\ views' = Put(views, viewid[t], view[t])
    /\ pc' = [pc EXCEPT ![t] = "redirect"]
    /\ UNCHANGED <<request, viewid, view, nrequests, ninstances, built, failed, constructing, realized>>
    /\ UNCHANGED <<iterVars, treeVars, viewVars, idVars>>

\* request.environ['VIEW'] = view; return internal_redirect(viewapp, path_depth).
\* The request ends and the locals of wrapper() are gone.
Redirect(t) ==
    /\ pc[t] = "redirect"
    /\ request' = [request EXCEPT ![t] = NoRequest]
    /\ viewid' = [viewid EXCEPT ![t] = <<>>]
    /\ view' = [view EXCEPT ![t] = 0]
    /\ pc' = [pc EXCEPT ![t] = "idle"]
    /\ UNCHANGED <<views, nrequests, ninstances, built, failed, constructing, realized>>
    /\ UNCHANGED <<iterVars, treeVars, viewVars, idVars>>

-----
(* The ledger data that iterate_with_balance is given *)

\* Optional values: None is <<>>, a value x is <<x>>.
None == <<>>
Some(x) == <<x>>

\* Entries by identity: their kind and date.
Ledger ==
    << [type |-> "Open",        date |-> 1],
       [type |-> "Transaction", date |-> 1],
       [type |-> "Transaction", date |-> 1],
       [type |-> "Transaction", date |-> 2],
       [type |-> "Check",       date |-> 2] >>

EntryIds == DOMAIN Ledger

\* Postings by identity: the parent Transaction (posting.entry) and the position.
PostingTable ==
    << [entry |-> 2, position |-> [lot |-> "USD", number |-> 1]],
       [entry |-> 2, position |-> [lot |-> "CAD", number |-> 2]],
       [entry |-> 3, position |-> [lot |-> "USD", number |-> -1]],
       [entry |-> 3, position |-> [lot |-> "USD", number |-> 2]],
       [entry |-> 4, position |-> [lot |-> "CAD", number |-> 1]] >>

PostingIds == DOMAIN PostingTable

\* The items of an input sequence: an entry given directly, or a Posting.
Items ==
    { [isPosting |-> FALSE, ref |-> e] : e \in EntryIds }
      \cup { [isPosting |-> TRUE, ref |-> p] : p \in PostingIds }

Inputs == UNION { [1..n -> Items] : n \in 0..MaxLen }

\* Inventory(): no position.
EmptyInventory == << >>

\* Inventory.add_position: a position whose lot the inventory already holds
\* is merged into it, any other is added.
AddPosition(inv, position) ==
    IF position.lot \in DOMAIN inv
    THEN [inv EXCEPT ![position.lot] = @ + position.number]
    ELSE Put(inv, position.lot, position.number)

\* utils.index_key(sequence, value, key=first): the index of the first pair
\* whose entry is the value, 0 when there is none.
IndexKey(pairs, entry) ==
    IF \E i \in 1..Len(pairs) : pairs[i].entry = entry
    THEN CHOOSE i \in 1..Len(pairs) :
            /\ pairs[i].entry = entry
            /\ \A j \in 1..(i - 1) : pairs[j].entry # entry
    ELSE 0

-----------------------------------------------------------------------------
(* iterate_with_balance, one action per stretch of code between two yields *)

\* "if isinstance(entry, Posting)": the entry and the posting of an item.
ItemEntry(item) == IF item.isPosting THEN PostingTable[item.ref].entry ELSE item.ref
ItemPosting(item) == IF item.isPosting THEN Some(item.ref) ELSE None

\* "if date_postings:" of a buffered pair.
Truthy(date_postings) == date_postings # None /\ date_postings[1] # <<>>

\* The inventory after adding the positions of a list of postings in order.
RECURSIVE AddPostings(_, _)
AddPostings(inv, postings) ==
    IF postings = <<>> THEN inv
    ELSE AddPostings(AddPosition(inv, PostingTable[Head(postings)].position),
                     Tail(postings))

\* A flush whose balance gets the last posting of the pair only.
FlushPairLastOnly(pair, bal) ==
    IF Truthy(pair.postings)
    THEN [change  |-> Some(AddPostings(EmptyInventory, pair.postings[1])),
          balance |-> AddPosition(bal,
                        PostingTable[pair.postings[1][Len(pair.postings[1])]].position)]
    ELSE [change  |-> None,
          balance |-> bal]

\* A flush that gives an entry without postings an empty change.
FlushPairEmptyChange(pair, bal) ==
    IF Truthy(pair.postings)
    THEN [change  |-> Some(AddPostings(EmptyInventory, pair.postings[1])),
          balance |-> AddPostings(bal, pair.postings[1])]
    ELSE [change  |-> Some(EmptyInventory),
          balance |-> bal]

\* A flush that adds the postings of a Transaction that was buffered without
\* postings to the balance.
FlushPairOwnPostings(pair, bal) ==
    IF Truthy(pair.postings)
    THEN [change  |-> Some(AddPostings(EmptyInventory, pair.postings[1])),
          balance |-> AddPostings(bal, pair.postings[1])]
    ELSE [change  |-> None,
          balance |-> AddPostings(bal,
                        SelectSeq([p \in PostingIds |-> p],
                                  LAMBDA p : PostingTable[p].entry = pair.entry))]

\* The body of the flush loop for one buffered pair: the change and the
\* running balance at the yield.
FlushPair(pair, bal) ==
    IF Truthy(pair.postings)
    THEN [change  |-> Some(AddPostings(EmptyInventory, pair.postings[1])),
          balance |-> AddPostings(bal, pair.postings[1])]
    ELSE [change  |-> None,
          balance |-> bal]

\* A record that carries the balance as it was before the pair's postings
\* were added.
YieldedBeforeUpdate(pair, bal) ==
    [entry    |-> pair.entry,
     postings |-> pair.postings,
     change   |-> FlushPair(pair, bal).change,
     balance  |-> Some(bal),
     before   |-> bal,
     first    |-> pair.first,
     run      |-> pair.run]

\* The record yielded for a buffered pair: (date_entry, date_postings, change,
\* balance), the balance being the running one at that moment. As history it
\* also keeps the balance before the pair, the input index at which the pair
\* was buffered and the date run it was buffered in.
Yielded(pair, bal) ==
    [entry    |-> pair.entry,
     postings |-> pair.postings,
     change   |-> FlushPair(pair, bal).change,
     balance  |-> Some(FlushPair(pair, bal).balance),
     before   |-> bal,
     first    |-> pair.first,
     run      |-> pair.run]

\* What the balance of a record reads as at the present moment. The generator
\* yields the running Inventory itself, not a copy of it, and goes on adding
\* positions to it: every record yielded so far holds that one object.
CarriedBalance(record) == Some(balance)

\* The de-dup of a Posting or the buffering of a plain entry. A pair found
\* with postings None makes postings.append raise AttributeError.
BufferRaises(pairs, entry, posting) ==
    /\ posting # None
    /\ IndexKey(pairs, entry) # 0
    /\ pairs[IndexKey(pairs, entry)].postings = None

\* A buffer that puts a new pair in front of the others.
BufferedInFront(pairs, entry, posting, at, run) ==
    IF posting # None
    THEN LET index == IndexKey(pairs, entry)
         IN IF index = 0
            THEN <<[entry |-> entry, postings |-> Some(<<posting[1]>>),
                    first |-> at, run |-> run]>> \o pairs
            ELSE [pairs EXCEPT ![index].postings = Some(Append(@[1], posting[1]))]
    ELSE <<[entry |-> entry, postings |-> None, first |-> at, run |-> run]>> \o pairs

Buffered(pairs, entry, posting, at, run) ==
    IF posting # None
    THEN LET index == IndexKey(pairs, entry)
         IN IF index = 0
            THEN Append(pairs, [entry |-> entry, postings |-> Some(<<posting[1]>>),
                                first |-> at, run |-> run])
            ELSE [pairs EXCEPT ![index].postings = Some(Append(@[1], posting[1]))]
    ELSE Append(pairs, [entry |-> entry, postings |-> None,
                        first |-> at, run |-> run])

IterInit ==
    /\ entries \in Inputs
    /\ ipc = "loop"
    /\ pos = 0
    /\ prev_date = 0
    /\ date_entries = <<>>
    /\ flush_i = 0
    /\ balance = EmptyInventory
    /\ out = <<>>
    /\ nruns = 0

\* for entry in entries: take the next item and compare its date.
NextItem ==
    /\ ipc = "loop"
    /\ pos < Len(entries)
    /\ pos' = pos + 1
    /\ LET entry == ItemEntry(entries[pos + 1])
       IN IF Ledger[entry].date # prev_date
          THEN /\ prev_date' = Ledger[entry].date
               /\ nruns' = nruns + 1
               /\ flush_i' = 0
               /\ ipc' = "flush"
          ELSE /\ ipc' = "buffer"
               /\ UNCHANGED <<prev_date, nruns, flush_i>>
    /\ UNCHANGED <<entries, date_entries, balance, out>>
    /\ UNCHANGED <<cacheVars, treeVars, viewVars, idVars>>

\* Flush the dated entries: one turn of the loop, up to its yield.
FlushYield ==
    /\ ipc = "flush"
    /\ flush_i < Len(date_entries)
    /\ balance' = FlushPair(date_entries[flush_i + 1], balance).balance
    /\ out' = Append(out, Yielded(date_entries[flush_i + 1], balance))
    /\ flush_i' = flush_i + 1
    /\ UNCHANGED <<entries, ipc, pos, prev_date, date_entries, nruns>>
    /\ UNCHANGED <<cacheVars, treeVars, viewVars, idVars>>

\* date_entries.clear() after the flush loop.
FlushEnd ==
    /\ ipc = "flush"
    /\ flush_i = Len(date_entries)
    /\ date_entries' = <<>>
    /\ flush_i' = 0
    /\ ipc' = "buffer"
    /\ UNCHANGED <<entries, pos, prev_date, balance, out, nruns>>
    /\ UNCHANGED <<cacheVars, treeVars, viewVars, idVars>>

\* Buffer the item in hand: group a Posting under its Transaction, append
\* any other entry.
Buffer ==
    /\ ipc = "buffer"
    /\ LET entry == ItemEntry(entries[pos])
           posting == ItemPosting(entries[pos])
       IN IF BufferRaises(date_entries, entry, posting)
          THEN /\ ipc' = "error"
               /\ UNCHANGED date_entries
          ELSE /\ date_entries' = Buffered(date_entries, entry, posting, pos, nruns)
               /\ ipc' = "loop"
    /\ UNCHANGED <<entries, pos, prev_date, flush_i, balance, out, nruns>>
    /\ UNCHANGED <<cacheVars, treeVars, viewVars, idVars>>

\* The for loop is exhausted.
EndLoop ==
    /\ ipc = "loop"
    /\ pos = Len(entries)
    /\ flush_i' = 0
    /\ ipc' = "final"
    /\ UNCHANGED <<entries, pos, prev_date, date_entries, balance, out, nruns>>
    /\ UNCHANGED <<cacheVars, treeVars, viewVars, idVars>>

\* Flush the final dated entries: one turn of the loop, up to its yield.
FinalYield ==
    /\ ipc = "final"
    /\ flush_i < Len(date_entries)
    /\ balance' = FlushPair(date_entries[flush_i + 1], balance).balance
    /\ out' = Append(out, Yielded(date_entries[flush_i + 1], balance))
    /\ flush_i' = flush_i + 1
    /\ UNCHANGED <<entries, ipc, pos, prev_date, date_entries, nruns>>
    /\ UNCHANGED <<cacheVars, treeVars, viewVars, idVars>>

\* date_entries.clear() and the end of the generator.
Finish ==
    /\ ipc = "final"
    /\ flush_i = Len(date_entries)
    /\ date_entries' = <<>>
    /\ flush_i' = 0
    /\ ipc' = "done"
    /\ UNCHANGED <<entries, pos, prev_date, balance, out, nruns>>
    /\ UNCHANGED <<cacheVars, treeVars, viewVars, idVars>>

-----------------------------------------------------------------------------
(* Account trees: the RealAccount tree that table_of_balances is given *)

MaxCurrencies == 2

\* The elements of a sequence.
Range(s) == { s[i] : i \in DOMAIN s }

\* Account names by their components: 'Assets:Bank' is <<"Assets", "Bank">>
\* and the name '' of the root of the whole tree is <<>>.
IsPrefix(a, b) == Len(a) <= Len(b) /\ SubSeq(b, 1, Len(a)) = a

\* The nodes of the tree, in the order of a walk that gives every parent before
\* its children.
TreeOrder ==
    << <<>>,
       <<"Assets">>,
       <<"Assets", "Bank">>,
       <<"Assets", "Bank", "Checking">>,
       <<"Assets", "Cash">>,
       <<"Income">> >>

TreeNames == Range(TreeOrder)

\* The start nodes a caller asks for: the root (trial), category roots
\* (balance_sheet_table), one of them without a node in the tree.
StartNames == { <<>>, <<"Assets">>, <<"Assets", "Bank">>, <<"Income">>, <<"Expenses">> }

\* A lot: its currency and its cost per unit in CostCurrency (0 is no cost).
Lot(currency, cost) == [currency |-> currency, cost |-> cost]

CostCurrency == "USD"

\* Every lot, in the order an Inventory lists its positions.
LotOrder == << Lot("USD", 0), Lot("CAD", 0), Lot("GOOG", 5) >>

\* The direct postings of a node: Open entries and Postings with a position.
OpenEntry == [kind |-> "Open", lot |-> Lot("", 0), number |-> 0]
PostingOf(lot, number) == [kind |-> "Posting", lot |-> lot, number |-> number]

PostingChoices ==
    { <<>>,
      <<OpenEntry>>,
      <<OpenEntry, PostingOf(Lot("USD", 0), 2)>>,
      <<OpenEntry, PostingOf(Lot("CAD", 0), 3)>>,
      <<OpenEntry, PostingOf(Lot("GOOG", 5), 1)>> }

\* The direct postings of every node, given those of the three leaf accounts.
DirectPostings(checking, cash, income) ==
    [ n \in TreeNames |->
        CASE n = <<"Assets", "Bank", "Checking">> -> checking
          [] n = <<"Assets", "Cash">>             -> cash
          [] n = <<"Income">>                     -> income
          [] OTHER                                -> <<>> ]

\* The positions of a list of direct postings added to an inventory.
RECURSIVE AddDirect(_, _)
AddDirect(inv, postings) ==
    IF postings = <<>> THEN inv
    ELSE AddDirect(IF Head(postings).kind = "Posting"
                   THEN AddPosition(inv, [lot |-> Head(postings).lot,
                                          number |-> Head(postings).number])
                   ELSE inv,
                   Tail(postings))

\* The balance of node n: its own postings and those of its descendants,
\* summed over the nodes from the i-th of TreeOrder on.
RECURSIVE SubtreeBalance(_, _, _)
SubtreeBalance(direct, n, i) ==
    IF i > Len(TreeOrder) THEN EmptyInventory
    ELSE IF IsPrefix(n, TreeOrder[i])
         THEN AddDirect(SubtreeBalance(direct, n, i + 1), direct[TreeOrder[i]])
         ELSE SubtreeBalance(direct, n, i + 1)

\* A realized tree: every node with its direct postings and its balance.
RealizedTree(direct) ==
    [ n \in TreeNames |-> [postings |-> direct[n],
                           balance  |-> SubtreeBalance(direct, n, 1)] ]

Trees ==
    { RealizedTree(DirectPostings(a, b, c)) :
        a \in PostingChoices, b \in PostingChoices, c \in PostingChoices }

Currencies == {"USD", "CAD", "EUR"}

CurrencyLists == UNION { [1..n -> Currencies] : n \in 0..MaxCurrencies }

\* Inventory.get_positions: the positions as a list.
GetPositions(inv) ==
    LET held == SelectSeq(LotOrder, LAMBDA l : l \in DOMAIN inv)
    IN  [ i \in 1..Len(held) |-> [lot |-> held[i], number |-> inv[held[i]]] ]

\* Inventory.get_position: the position of that lot, or None.
GetPosition(inv, lot) ==
    IF lot \in DOMAIN inv THEN Some([lot |-> lot, number |-> inv[lot]]) ELSE None

\* The positions of a list added to an inventory.
RECURSIVE AddPositions(_, _)
AddPositions(inv, positions) ==
    IF positions = <<>> THEN inv
    ELSE AddPositions(AddPosition(inv, Head(positions)), Tail(positions))

\* A position at cost: a lot with a cost becomes units of the cost currency.
CostPosition(position) ==
    IF position.lot.cost = 0 THEN position
    ELSE [lot |-> Lot(CostCurrency, 0), number |-> position.number * position.lot.cost]

\* Inventory.get_cost: a new inventory that holds every position at cost.
GetCost(inv) ==
    LET positions == GetPositions(inv)
    IN  AddPositions(EmptyInventory,
                     [ i \in DOMAIN positions |-> CostPosition(positions[i]) ])

\* data.is_account_root: the name of one of the five categories.
CategoryRoots == {"Assets", "Liabilities", "Equity", "Income", "Expenses"}

is_account_root(name) == Len(name) = 1 /\ name[1] \in CategoryRoots

\* An is_account_active that takes an Open for activity.
IsAccountActiveAnyPosting(real_account) == real_account.postings # <<>>

\* is_account_active: some direct posting is not an Open.
is_account_active(real_account) ==
    \E i \in DOMAIN real_account.postings : real_account.postings[i].kind # "Open"

\* tree.mark_from_leaves(is_account_active), as names: the nodes that are
\* active or have an active descendant.
ActiveSet(t) ==
    { n \in DOMAIN t : \E d \in DOMAIN t : IsPrefix(n, d) /\ is_account_active(t[d]) }

\* tree.render_lines(start_node_name), as names: the start node and its
\* descendants, parents first.
RenderLines(t, start) ==
    SelectSeq(TreeOrder, LAMBDA n : n \in DOMAIN t /\ IsPrefix(start, n))

\* A test that skips the category roots as well.
SkippedWithRoots(name, active) == name \notin active \/ is_account_root(name)

\* "if (real_account.name not in active_set and not is_account_root(...)): continue"
Skipped(name, active) == name \notin active /\ ~is_account_root(name)

\* The cells of a row.
NumberCell(number) == [kind |-> "number", number |-> number, positions |-> <<>>]
BlankCell          == [kind |-> "blank",  number |-> 0,      positions |-> <<>>]
OtherCell(positions) == [kind |-> "other", number |-> 0, positions |-> positions]

\* list.remove: without the first element equal to x.
RECURSIVE Remove(_, _)
Remove(s, x) ==
    IF s = <<>> THEN s
    ELSE IF Head(s) = x THEN Tail(s)
         ELSE <<Head(s)>> \o Remove(Tail(s), x)

\* A loop body that leaves a matched position in the list of the residual cell.
RECURSIVE RowCellsKeepMatched(_, _, _, _, _)
RowCellsKeepMatched(balance_cost, curs, i, positions, cells) ==
    IF i > Len(curs)
    THEN [raised |-> FALSE, cells |-> Append(cells, OtherCell(positions))]
    ELSE LET position == GetPosition(balance_cost, Lot(curs[i], 0))
         IN  IF position # None
             THEN RowCellsKeepMatched(balance_cost, curs, i + 1, positions,
                                      Append(cells, NumberCell(position[1].number)))
             ELSE RowCellsKeepMatched(balance_cost, curs, i + 1, positions,
                                      Append(cells, BlankCell))

\* The body of the loop over a row, from the i-th currency on: the cells, and
\* whether positions.remove raised ValueError.
RECURSIVE RowCells(_, _, _, _, _)
RowCells(balance_cost, curs, i, positions, cells) ==
    IF i > Len(curs)
    THEN [raised |-> FALSE, cells |-> Append(cells, OtherCell(positions))]
    ELSE LET position == GetPosition(balance_cost, Lot(curs[i], 0))
         IN  IF position # None
             THEN IF position[1] \in Range(positions)
                  THEN RowCells(balance_cost, curs, i + 1,
                                Remove(positions, position[1]),
                                Append(cells, NumberCell(position[1].number)))
                  ELSE [raised |-> TRUE, cells |-> cells]
             ELSE RowCells(balance_cost, curs, i + 1, positions,
                           Append(cells, BlankCell))

\* The row of a node: the loop run on a copy of the positions at cost.
Row(real_account, curs) ==
    LET balance_cost == GetCost(real_account.balance)
    IN  RowCells(balance_cost, curs, 1, GetPositions(balance_cost), <<>>)

\* A row body that removes the matched positions from the node's own balance.
BalanceAfterRowInPlace(real_account, curs) ==
    [ l \in { l \in DOMAIN real_account.balance : l \notin { Lot(curs[i], 0) : i \in DOMAIN curs } }
        |-> real_account.balance[l] ]

\* The node's balance after its row: get_cost() and list() give the loop
\* objects of its own, so the node keeps its balance.
BalanceAfterRow(real_account, curs) == real_account.balance

\* The caller (trial, balance_sheet_table) has the table, or the exception, of
\* one call; the tree can be rendered again.
CallerResumes ==
    /\ rpc \in {"done", "error"}
    /\ rpc' = "idle"
    /\ start_node_name' = <<>>
    /\ currencies' = <<>>
    /\ active_set' = {}
    /\ lines' = <<>>
    /\ line_i' = 0
    /\ rows' = <<>>
    /\ UNCHANGED tree
    /\ UNCHANGED <<cacheVars, iterVars, viewVars, idVars>>

TreeInit ==
    /\ tree \in Trees
    /\ rpc = "idle"
    /\ start_node_name = <<>>
    /\ currencies = <<>>
    /\ active_set = {}
    /\ lines = <<>>
    /\ line_i = 0
    /\ rows = <<>>

\* table_of_balances is called: the header, the active set, and tree_table up
\* to its first yield.
TableOfBalances(start, curs) ==
    /\ rpc = "idle"
    /\ start_node_name' = start
    /\ currencies' = curs
    /\ active_set' = ActiveSet(tree)
    /\ lines' = IF start \in DOMAIN tree THEN RenderLines(tree, start) ELSE <<>>
    /\ line_i' = 0
    /\ rows' = <<>>
    /\ rpc' = "rows"
    /\ UNCHANGED tree
    /\ UNCHANGED <<cacheVars, iterVars, viewVars, idVars>>

\* The loop takes a node that is neither active nor a category root: its cells
\* stay empty and tree_table writes no row.
SkipRow ==
    /\ rpc = "rows"
    /\ line_i < Len(lines)
    /\ Skipped(lines[line_i + 1], active_set)
    /\ line_i' = line_i + 1
    /\ UNCHANGED <<tree, rpc, start_node_name, currencies, active_set, lines, rows>>
    /\ UNCHANGED <<cacheVars, iterVars, viewVars, idVars>>

\* The loop takes a node, fills its cells, and tree_table writes its row.
WriteRow ==
    /\ rpc = "rows"
    /\ line_i < Len(lines)
    /\ LET name == lines[line_i + 1]
           row  == Row(tree[name], currencies)
       IN  /\ ~Skipped(name, active_set)
           /\ ~row.raised
           /\ rows' = Append(rows, [name |-> name, cells |-> row.cells])
           /\ tree' = [tree EXCEPT ![name].balance = BalanceAfterRow(tree[name], currencies)]
    /\ line_i' = line_i + 1
    /\ UNCHANGED <<rpc, start_node_name, currencies, active_set, lines>>
    /\ UNCHANGED <<cacheVars, iterVars, viewVars, idVars>>

\* The loop takes a node and positions.remove raises: table_of_balances ends
\* with the exception and returns no table.
RowRaises ==
    /\ rpc = "rows"
    /\ line_i < Len(lines)
    /\ LET name == lines[line_i + 1]
       IN  /\ ~Skipped(name, active_set)
           /\ Row(tree[name], currencies).raised
    /\ line_i' = line_i + 1
    /\ rpc' = "error"
    /\ UNCHANGED <<tree, start_node_name, currencies, active_set, lines, rows>>
    /\ UNCHANGED <<cacheVars, iterVars, viewVars, idVars>>

\* tree_table is exhausted and table_of_balances returns the table.
ReturnTable ==
    /\ rpc = "rows"
    /\ line_i = Len(lines)
    /\ rpc' = "done"
    /\ UNCHANGED <<tree, start_node_name, currencies, active_set, lines, line_i, rows>>
    /\ UNCHANGED <<cacheVars, iterVars, viewVars, idVars>>

-----------------------------------------------------------------------------
(* Views: the ledger, the filters, and View._realize *)

\* datetime.date(year, month, day), as a number that orders as dates do.
MakeDate(year, month, day) == year * 10000 + month * 100 + day

\* The options the views read; account names are lists of components.
Options ==
    [ name_assets        |-> "Assets",
      name_liabilities   |-> "Liabilities",
      name_equity        |-> "Equity",
      name_income        |-> "Income",
      name_expenses      |-> "Expenses",
      account_netincome  |-> <<"NetIncome">>,
      account_earnings   |-> <<"Earnings">>,
      account_opening    |-> <<"Opening">> ]

\* '{}:{}'.format(equity, ...): the sub-account of Equity of that name.
EquityAccount(sub) == <<Options.name_equity>> \o sub

\* Every account that holds postings, in a fixed order.
ViewAccounts ==
    << <<"Assets", "Bank">>,
       <<"Assets", "Closed">>,
       <<"Equity", "Earnings">>,
       <<"Equity", "NetIncome">>,
       <<"Equity", "Opening">>,
       <<"Expenses", "Food">>,
       <<"Income", "Salary">> >>

PostTo(account, number) == [account |-> account, number |-> number]

\* The entries a ledger is made of, in date order. id 0 is kept for the
\* entries that clamp and transfer synthesize. Entry 6 posts to an account
\* that was closed before its date.
ViewLedger ==
    << [id |-> 1, type |-> "Transaction", date |-> MakeDate(2011, 6, 15),
        payee |-> "A", tags |-> {"x"},
        postings |-> <<PostTo(<<"Assets", "Bank">>, 3), PostTo(<<"Income", "Salary">>, -3)>>],
       [id |-> 2, type |-> "Transaction", date |-> MakeDate(2012, 1, 1),
        payee |-> "B", tags |-> {},
        postings |-> <<PostTo(<<"Expenses", "Food">>, 1), PostTo(<<"Assets", "Bank">>, -1)>>],
       [id |-> 6, type |-> "Transaction", date |-> MakeDate(2012, 3, 1),
        payee |-> "B", tags |-> {},
        postings |-> <<PostTo(<<"Assets", "Closed">>, 1), PostTo(<<"Assets", "Bank">>, -1)>>],
       [id |-> 3, type |-> "Note", date |-> MakeDate(2012, 6, 15),
        payee |-> "", tags |-> {},
        postings |-> <<>>],
       [id |-> 4, type |-> "Transaction", date |-> MakeDate(2012, 12, 31),
        payee |-> "A", tags |-> {"x", "y"},
        postings |-> <<PostTo(<<"Assets", "Bank">>, 2), PostTo(<<"Income", "Salary">>, -2)>>],
       [id |-> 5, type |-> "Transaction", date |-> MakeDate(2013, 1, 1),
        payee |-> "B", tags |-> {"y"},
        postings |-> <<PostTo(<<"Expenses", "Food">>, 2), PostTo(<<"Assets", "Bank">>, -2)>>] >>

\* The ledgers: every selection of these entries, in date order.
Ledgers ==
    { SelectSeq(ViewLedger, LAMBDA e : e.id \in S) : S \in SUBSET (DOMAIN ViewLedger) }

Years    == {2010, 2011, 2012, 2013, 2014}
TagSets  == { {"x"}, {"y"}, {"x", "y"}, {"z"} }
Payees   == {"A", "B", "C"}

\* What is constructed: the subclass and its parameter.
ScopeOf(kind, year, tags, payee) ==
    [kind |-> kind, year |-> year, tags |-> tags, payee |-> payee]

Scopes ==
    {ScopeOf("all", 0, {}, "")}
      \cup { ScopeOf("year", y, {}, "") : y \in Years }
      \cup { ScopeOf("tag", 0, t, "") : t \in TagSets }
      \cup { ScopeOf("payee", 0, {}, p) : p \in Payees }

\* An entry made by clamp or transfer.
Synthesized(date, postings) ==
    [id |-> 0, type |-> "Transaction", date |-> date, payee |-> "", tags |-> {},
     postings |-> postings]

\* The postings of a list of entries, in order.
RECURSIVE AllPostings(_)
AllPostings(es) ==
    IF es = <<>> THEN <<>> ELSE Head(es).postings \o AllPostings(Tail(es))

\* The sum of the postings to the account of that name and to its sub-accounts.
RECURSIVE SumUnder(_, _)
SumUnder(postings, name) ==
    IF postings = <<>> THEN 0
    ELSE (IF IsPrefix(name, Head(postings).account) THEN Head(postings).number ELSE 0)
           + SumUnder(Tail(postings), name)

\* data.is_income_statement_account: an account of Income or Expenses.
is_income_statement_account(account) ==
    account # <<>> /\ account[1] \in {Options.name_income, Options.name_expenses}

\* summarize.transfer(entries, None, is_income_statement_account, account):
\* the entries, followed by one entry per income-statement account with a
\* balance, that moves the balance to the given account.
Transfer(es, transfer_account) ==
    LET postings == AllPostings(es)
        held == SelectSeq(ViewAccounts,
                          LAMBDA a : is_income_statement_account(a)
                                       /\ SumUnder(postings, a) # 0)
    IN  es \o [ i \in 1..Len(held) |->
                  Synthesized(es[Len(es)].date,
                              <<PostTo(held[i], 0 - SumUnder(postings, held[i])),
                                PostTo(transfer_account, SumUnder(postings, held[i]))>>) ]

\* summarize.clamp: the entries before begin_date are replaced by opening
\* entries, one per account with a balance once income and expenses have moved
\* to account_earnings; the entries from end_date on are dropped; the index is
\* that of the first entry after the opening entries.
Clamp(es, begin_date, end_date, account_earnings, account_opening) ==
    LET before == AllPostings(SelectSeq(es, LAMBDA e : e.date < begin_date))
        period == SelectSeq(es, LAMBDA e : begin_date <= e.date /\ e.date < end_date)
        earned == SumUnder(before, <<Options.name_income>>)
                    + SumUnder(before, <<Options.name_expenses>>)
        bal(a) == IF is_income_statement_account(a) THEN 0
                  ELSE SumUnder(before, a) + (IF a = account_earnings THEN earned ELSE 0)
        held == SelectSeq(ViewAccounts, LAMBDA a : bal(a) # 0)
        opening == [ i \in 1..Len(held) |->
                       Synthesized(begin_date - 1,
                                   <<PostTo(held[i], bal(held[i])),
                                     PostTo(account_opening, 0 - bal(held[i]))>>) ]
    IN  [entries |-> opening \o period, index |-> Some(Len(held))]

\* get_account_types(options): the names of the categories, which realize
\* gives a node each even without postings.
AccountTypes == { <<"Assets">>, <<"Liabilities">>, <<"Equity">>, <<"Income">>, <<"Expenses">> }

\* realization.realize: a tree with a node for every account posted to, for
\* its ancestors and for the categories, each with the balance of its subtree.
Realize(es) ==
    LET postings == AllPostings(es)
        posted   == { postings[i].account : i \in DOMAIN postings }
        names    == AccountTypes
                      \cup UNION { { SubSeq(a, 1, k) : k \in 0..Len(a) } : a \in posted }
    IN  [ n \in names |-> SumUnder(postings, n) ]

\* The accounts closed before every date of the ledger.
ClosedAccounts == { <<"Assets", "Closed">> }

\* realization.realize fails with a structural error: a posting refers to an
\* account closed before the posting date.
RealizeFails(es) ==
    \E i \in DOMAIN AllPostings(es) : AllPostings(es)[i].account \in ClosedAccounts

\* An AllView filter that keeps the Transactions only.
AllFilterTransactions(es) ==
    [entries |-> SelectSeq(es, LAMBDA e : e.type = "Transaction"), index |-> None]

\* AllView.apply_filter
AllFilter(es) == [entries |-> es, index |-> None]

\* A year that ends on its December 31.
YearEndDecember(year) == MakeDate(year, 12, 31)

\* YearView.apply_filter: end_date
YearEnd(year) == MakeDate(year + 1, 1, 1)

\* YearView.apply_filter: begin_date
YearBegin(year) == MakeDate(year, 1, 1)

\* YearView.apply_filter
YearFilter(es, year) ==
    Clamp(es, YearBegin(year), YearEnd(year),
          EquityAccount(Options.account_earnings), EquityAccount(Options.account_opening))

\* A TagView filter that asks for every requested tag.
TagFilterEveryTag(es, tags) ==
    [entries |-> SelectSeq(es, LAMBDA e : e.type = "Transaction" /\ tags \subseteq e.tags),
     index |-> None]

\* TagView.apply_filter
TagFilter(es, tags) ==
    [entries |-> SelectSeq(es, LAMBDA e : e.type = "Transaction"
                                            /\ (e.tags \cap tags) # {}),
     index |-> None]

\* A PayeeView filter that keeps the other payees.
PayeeFilterOthers(es, payee) ==
    [entries |-> SelectSeq(es, LAMBDA e : e.type = "Transaction" /\ e.payee # payee),
     index |-> None]

\* PayeeView.apply_filter
PayeeFilter(es, payee) ==
    [entries |-> SelectSeq(es, LAMBDA e : e.type = "Transaction" /\ e.payee = payee),
     index |-> None]

\* self.apply_filter(self.all_entries, self.options), by subclass.
apply_filter(sc, es) ==
    CASE sc.kind = "all"   -> AllFilter(es)
      [] sc.kind = "year"  -> YearFilter(es, sc.year)
      [] sc.kind = "tag"   -> TagFilter(es, sc.tags)
      [] sc.kind = "payee" -> PayeeFilter(es, sc.payee)

\* The title the route gives the View: 'All Transactions', 'Year {:4d}', ...
Title(sc) ==
    [ text |-> CASE sc.kind = "all"   -> "All Transactions"
                 [] sc.kind = "year"  -> "Year"
                 [] sc.kind = "tag"   -> "Tag"
                 [] sc.kind = "payee" -> "Payee",
      year |-> sc.year, tags |-> sc.tags, payee |-> sc.payee ]

\* The attributes of a View as __init__ sets them before _realize.
NewView ==
    [ title                 |-> Title(ScopeOf("all", 0, {}, "")),
      options               |-> Options,
      entries               |-> None,
      begin_index           |-> None,
      opening_entries       |-> None,
      closing_entries       |-> None,
      real_accounts         |-> None,
      opening_real_accounts |-> None,
      closing_real_accounts |-> None ]

\* A closing tree realized from the filtered entries.
ClosingRealizedFromEntries(vw) == Some(Realize(vw.entries[1]))

\* "self.closing_real_accounts = realization.realize(self.closing_entries, ...)"
ClosingRealized(vw) == Some(Realize(vw.closing_entries[1]))

\* A main tree that is realized only when there are entries.
MainRealizedIfAny(vw) ==
    IF vw.entries[1] # <<>> THEN Some(Realize(vw.entries[1])) ELSE None

\* "self.real_accounts = realization.realize(self.entries, ...)"
MainRealized(vw) == Some(Realize(vw.entries[1]))

\* "if self.opening_entries: ... else: self.opening_real_accounts = None":
\* an empty list is as good as None here.
OpeningRealized(vw) ==
    IF vw.opening_entries # None /\ vw.opening_entries[1] # <<>>
    THEN Some(Realize(vw.opening_entries[1]))
    ELSE None

\* The list the realize call that is due is given, if one is due.
RealizeInput(vw, at) ==
    CASE at = "realize_opening" ->
             IF vw.opening_entries # None /\ vw.opening_entries[1] # <<>>
             THEN vw.opening_entries ELSE None
      [] at = "realize"         -> vw.entries
      [] at = "realize_closing" -> vw.closing_entries
      [] OTHER                  -> None

\* The realize call that is due raises.
RealizeDueFails(vw, at) ==
    RealizeInput(vw, at) # None /\ RealizeFails(RealizeInput(vw, at)[1])

ViewInit ==
    /\ all_entries \in Ledgers
    /\ scope = ScopeOf("all", 0, {}, "")
    /\ vpc = "idle"
    /\ self = NewView
    /\ page = None

\* A vw is constructed: __init__ up to the call of _realize.
Construct(sc) ==
    /\ vpc \in {"idle", "done", "error"}
    /\ scope' = sc
    /\ self' = [NewView EXCEPT !.title = Title(sc)]
    /\ vpc' = "filter"
    /\ page' = None
    /\ UNCHANGED all_entries
    /\ UNCHANGED <<cacheVars, iterVars, treeVars, idVars>>

\* A filter that works on the list it is given: the ledger is left with the
\* entries of the view.
ApplyFilterInPlace ==
    /\ vpc = "filter"
    /\ LET filtered == apply_filter(scope, all_entries)
       IN  /\ self' = [self EXCEPT !.entries = Some(filtered.entries),
                             !.begin_index = filtered.index]
           /\ all_entries' = filtered.entries
    /\ vpc' = "opening"
    /\ UNCHANGED <<scope, page>>
    /\ UNCHANGED <<cacheVars, iterVars, treeVars, idVars>>

\* _realize: the filtered entries and the opening boundary.
ApplyFilter ==
    /\ vpc = "filter"
    /\ LET filtered == apply_filter(scope, all_entries)
       IN  self' = [self EXCEPT !.entries = Some(filtered.entries),
                          !.begin_index = filtered.index]
    /\ vpc' = "opening"
    /\ UNCHANGED <<all_entries, scope, page>>
    /\ UNCHANGED <<cacheVars, iterVars, treeVars, idVars>>

\* _realize: the entries of the opening balance sheet.
OpeningEntries ==
    /\ vpc = "opening"
    /\ self' = [self EXCEPT !.opening_entries =
                 IF self.begin_index # None
                 THEN Some(SubSeq(self.entries[1], 1, self.begin_index[1]))
                 ELSE None]
    /\ vpc' = "transfer"
    /\ UNCHANGED <<all_entries, scope, page>>
    /\ UNCHANGED <<cacheVars, iterVars, treeVars, idVars>>

\* _realize: the net income account, and the entries with the transfer to it.
ClosingEntries ==
    /\ vpc = "transfer"
    /\ LET account_netincome == EquityAccount(Options.account_netincome)
       IN  self' = [self EXCEPT !.closing_entries =
                     Some(Transfer(self.entries[1], account_netincome))]
    /\ vpc' = "realize_opening"
    /\ UNCHANGED <<all_entries, scope, page>>
    /\ UNCHANGED <<cacheVars, iterVars, treeVars, idVars>>

\* _realize: the opening tree.
RealizeOpening ==
    /\ vpc = "realize_opening"
    /\ ~RealizeDueFails(self, vpc)
    /\ self' = [self EXCEPT !.opening_real_accounts = OpeningRealized(self)]
    /\ vpc' = "realize"
    /\ UNCHANGED <<all_entries, scope, page>>
    /\ UNCHANGED <<cacheVars, iterVars, treeVars, idVars>>

\* A main tree that _realize gets whatever realize does, the construction
\* going on.
RealizeMainSwallows ==
    /\ vpc = "realize"
    /\ self' = [self EXCEPT !.real_accounts =
                 IF RealizeDueFails(self, vpc) THEN None ELSE MainRealized(self)]
    /\ vpc' = "realize_closing"
    /\ UNCHANGED <<all_entries, scope, page>>
    /\ UNCHANGED <<cacheVars, iterVars, treeVars, idVars>>

\* _realize: the main tree.
RealizeMain ==
    /\ vpc = "realize"
    /\ ~RealizeDueFails(self, vpc)
    /\ self' = [self EXCEPT !.real_accounts = MainRealized(self)]
    /\ vpc' = "realize_closing"
    /\ UNCHANGED <<all_entries, scope, page>>
    /\ UNCHANGED <<cacheVars, iterVars, treeVars, idVars>>

\* _realize: the closing tree; a realize that returns, returns a tree, so that
\* the two asserts pass and the constructor returns.
RealizeClosing ==
    /\ vpc = "realize_closing"
    /\ ~RealizeDueFails(self, vpc)
    /\ self' = [self EXCEPT !.closing_real_accounts = ClosingRealized(self)]
    /\ vpc' = "done"
    /\ UNCHANGED <<all_entries, scope, page>>
    /\ UNCHANGED <<cacheVars, iterVars, treeVars, idVars>>

\* _realize: realization.realize raises; nothing catches it in _realize or in
\* __init__, so that the constructor raises and its caller gets no View.
RealizeRaises ==
    /\ RealizeDueFails(self, vpc)
    /\ vpc' = "error"
    /\ UNCHANGED <<all_entries, scope, self, page>>
    /\ UNCHANGED <<cacheVars, iterVars, treeVars, idVars>>

\* The table a page shows for the accounts at and below the one of that name:
\* table_of_balances, reduced to the accounts and their balances.
BalanceTable(real_accounts, name) ==
    [ n \in { a \in DOMAIN real_accounts : IsPrefix(<<name>>, a) } |-> real_accounts[n] ]

\* balance_sheet_table(real_accounts, options)
balance_sheet_table(real_accounts, options) ==
    [ assets      |-> BalanceTable(real_accounts, options.name_assets),
      liabilities |-> BalanceTable(real_accounts, options.name_liabilities),
      equity      |-> BalanceTable(real_accounts, options.name_equity) ]

\* render_app(pagetitle, contents): contents is a text or a set of tables.
RenderApp(pagetitle, text, tables) ==
    Some([pagetitle |-> pagetitle, text |-> text, tables |-> tables])

\* A request for a page of the View that the cache holds: handle_view finds the
\* View, populate_view hands it over as request.view, and the handler renders.

\* trial(): the table of the whole main tree.
Trial ==
    /\ vpc = "done"
    /\ page' = RenderApp("Trial Balance", "", Some(self.real_accounts[1]))
    /\ UNCHANGED <<all_entries, scope, vpc, self>>
    /\ UNCHANGED <<cacheVars, iterVars, treeVars, idVars>>

\* balsheet(): the balance sheet of the closing tree.
Balsheet ==
    /\ vpc = "done"
    /\ page' = RenderApp("Balance Sheet", "",
                         Some(balance_sheet_table(self.closing_real_accounts[1], self.options)))
    /\ UNCHANGED <<all_entries, scope, vpc, self>>
    /\ UNCHANGED <<cacheVars, iterVars, treeVars, idVars>>

\* An opening-balances page that shows the main tree where there is no opening
\* tree.
OpenbalFallsBack ==
    /\ vpc = "done"
    /\ LET real_accounts == IF self.opening_real_accounts = None
                            THEN self.real_accounts ELSE self.opening_real_accounts
       IN  page' = RenderApp("Opening Balances", "",
                             Some(balance_sheet_table(real_accounts[1], self.options)))
    /\ UNCHANGED <<all_entries, scope, vpc, self>>
    /\ UNCHANGED <<cacheVars, iterVars, treeVars, idVars>>

\* openbal(): 'N/A', or the balance sheet of the opening tree.
Openbal ==
    /\ vpc = "done"
    /\ LET real_accounts == self.opening_real_accounts
       IN  page' = IF real_accounts = None
                   THEN RenderApp("Opening Balances", "N/A", None)
                   ELSE RenderApp("Opening Balances", "",
                                  Some(balance_sheet_table(real_accounts[1], self.options)))
    /\ UNCHANGED <<all_entries, scope, vpc, self>>
    /\ UNCHANGED <<cacheVars, iterVars, treeVars, idVars>>

-----------------------------------------------------------------------------
(* Identifiers: compute_ids *)

MaxStrings == 2

\* The characters of the strings, with their code points.
Ord == (" " :> 32) @@ ("-" :> 45) @@ ("_" :> 95) @@ ("a" :> 97) @@ ("b" :> 98)

Alnum == {"a", "b"}

\* The strings that tags and payees are taken from: 'a', 'a b', 'a_b', 'a-b',
\* 'ab', ' ' and '_'.
IdStrings ==
    { <<"a">>, <<"a", " ", "b">>, <<"a", "_", "b">>, <<"a", "-", "b">>,
      <<"a", "b">>, <<" ">>, <<"_">> }

\* The collections handed to compute_ids: in any order, with repetitions.
StringLists == UNION { [1..n -> IdStrings] : n \in 0..MaxStrings }

\* The (regexp, replacement) pairs in the order they are tried, a regexp
\* [^...] being given by the characters it does not match.
SchemesStrictFirst ==
    << [keep |-> Alnum, replacement |-> <<>>],
       [keep |-> Alnum \cup {"-", "."}, replacement |-> <<"_">>] >>

\* [('[^A-Za-z0-9-.]', '_'), ('[^A-Za-z0-9]', '')]
Schemes ==
    << [keep |-> Alnum \cup {"-", "."}, replacement |-> <<"_">>],
       [keep |-> Alnum, replacement |-> <<>>] >>

\* re.sub(regexp, replacement, string): every character the regexp matches is
\* replaced.
RECURSIVE ReSub(_, _)
ReSub(scheme, string) ==
    IF string = <<>> THEN <<>>
    ELSE (IF Head(string) \in scheme.keep THEN <<Head(string)>> ELSE scheme.replacement)
           \o ReSub(scheme, Tail(string))

\* idmap[id].append(string), idmap being a defaultdict(list).
IdMapAppend(map, id, string) ==
    IF id \in DOMAIN map
    THEN [map EXCEPT ![id] = Append(@, string)]
    ELSE Put(map, id, <<string>>)

\* A check that takes any idmap for free of collisions.
NoCollisionUnchecked(map) == TRUE

\* all(len(stringlist) == 1 for stringlist in idmap.values())
NoCollision(map) == \A id \in DOMAIN map : Len(map[id]) = 1

\* The order of str: by code points, a proper prefix first.
RECURSIVE StrLess(_, _)
StrLess(a, b) ==
    IF b = <<>> THEN FALSE
    ELSE IF a = <<>> THEN TRUE
    ELSE IF Head(a) # Head(b) THEN Ord[Head(a)] < Ord[Head(b)]
    ELSE StrLess(Tail(a), Tail(b))

\* The order of the tuples (id, string).
PairLess(p, q) == StrLess(p[1], q[1]) \/ (p[1] = q[1] /\ StrLess(p[2], q[2]))

\* sorted(...) of a collection of distinct pairs.
Sorted(pairs) ==
    CHOOSE q \in [1..Cardinality(pairs) -> pairs] :
        \A i, j \in DOMAIN q : i < j => PairLess(q[i], q[j])

\* sorted((id, stringlist[0]) for id, stringlist in idmap.items())
IdPairs(map) == Sorted({ <<id, map[id][1]>> : id \in DOMAIN map })

IdsInit ==
    /\ strings \in StringLists
    /\ cpc = "scheme"
    /\ scheme_i = 0
    /\ remaining = {}
    /\ idmap = << >>
    /\ result = None

\* string_set = set(strings); the for loop takes the next (regexp,
\* replacement) and starts an empty idmap.
NextScheme ==
    /\ cpc = "scheme"
    /\ scheme_i < Len(Schemes)
    /\ scheme_i' = scheme_i + 1
    /\ idmap' = << >>
    /\ remaining' = Range(strings)
    /\ cpc' = "map"
    /\ UNCHANGED <<strings, result>>
    /\ UNCHANGED <<cacheVars, iterVars, treeVars, viewVars>>

\* for string in string_set: in whatever order the set gives its elements.
MapString(string) ==
    /\ cpc = "map"
    /\ string \in remaining
    /\ idmap' = IdMapAppend(idmap, ReSub(Schemes[scheme_i], string), string)
    /\ remaining' = remaining \ {string}
    /\ UNCHANGED <<strings, cpc, scheme_i, result>>
    /\ UNCHANGED <<cacheVars, iterVars, treeVars, viewVars>>

\* No collision: break, and return the sorted pairs.
ReturnIds ==
    /\ cpc = "map"
    /\ remaining = {}
    /\ NoCollision(idmap)
    /\ result' = Some(IdPairs(idmap))
    /\ cpc' = "done"
    /\ UNCHANGED <<strings, scheme_i, remaining, idmap>>
    /\ UNCHANGED <<cacheVars, iterVars, treeVars, viewVars>>

\* A collision: on to the next pair.
Collision ==
    /\ cpc = "map"
    /\ remaining = {}
    /\ ~NoCollision(idmap)
    /\ cpc' = "scheme"
    /\ UNCHANGED <<strings, scheme_i, remaining, idmap, result>>
    /\ UNCHANGED <<cacheVars, iterVars, treeVars, viewVars>>

\* The for loop is exhausted without a break: raise RuntimeError.
RaiseNoMapping ==
    /\ cpc = "scheme"
    /\ scheme_i = Len(Schemes)
    /\ cpc' = "error"
    /\ UNCHANGED <<strings, scheme_i, remaining, idmap, result>>
    /\ UNCHANGED <<cacheVars, iterVars, treeVars, viewVars>>

-----------------------------------------------------------------------------
(* Specifications *)

\* The iterator before it is called, as the cache specification sees it.
IterIdle ==
    /\ entries = <<>>
    /\ ipc = "loop"
    /\ pos = 0
    /\ prev_date = 0
    /\ date_entries = <<>>
    /\ flush_i = 0
    /\ balance = EmptyInventory
    /\ out = <<>>
    /\ nruns = 0

\* The tree renderer before it is called, as the other specifications see it.
TreeIdle ==
    /\ tree = RealizedTree(DirectPostings(<<>>, <<>>, <<>>))
    /\ rpc = "idle"
    /\ start_node_name = <<>>
    /\ currencies = <<>>
    /\ active_set = {}
    /\ lines = <<>>
    /\ line_i = 0
    /\ rows = <<>>

\* No view under construction, as the other specifications see it.
ViewIdle ==
    /\ all_entries = <<>>
    /\ scope = ScopeOf("all", 0, {}, "")
    /\ vpc = "idle"
    /\ self = NewView
    /\ page = None

\* compute_ids before it is called, as the other specifications see it.
IdsIdle ==
    /\ strings = <<>>
    /\ cpc = "scheme"
    /\ scheme_i = 0
    /\ remaining = {}
    /\ idmap = << >>
    /\ result = None

CacheNext ==
    \/ \E t \in Workers, r \in Routed : Accept(t, r)
    \/ \E t \in Workers : Lookup(t)
    \/ \E t \in Workers : CallbackConstructs(t)
    \/ \E t \in Workers : CallbackReturns(t)
    \/ \E t \in Workers : CallbackRaises(t)
    \/ \E t \in Workers : Store(t)
    \/ \E t \in Workers : Redirect(t)

IterNext ==
    \/ NextItem
    \/ FlushYield
    \/ FlushEnd
    \/ Buffer
    \/ EndLoop
    \/ FinalYield
    \/ Finish

TreeNext ==
    \/ \E start \in StartNames, curs \in CurrencyLists : TableOfBalances(start, curs)
    \/ SkipRow
    \/ WriteRow
    \/ RowRaises
    \/ ReturnTable
    \/ CallerResumes

ViewNext ==
    \/ \E sc \in Scopes : Construct(sc)
    \/ ApplyFilter
    \/ OpeningEntries
    \/ ClosingEntries
    \/ RealizeOpening
    \/ RealizeMain
    \/ RealizeClosing
    \/ RealizeRaises
    \/ Trial
    \/ Balsheet
    \/ Openbal

IdsNext ==
    \/ NextScheme
    \/ \E string \in IdStrings : MapString(string)
    \/ ReturnIds
    \/ Collision
    \/ RaiseNoMapping

\* Requests served by the workers of the server, in any interleaving.
InitCache == CacheInit /\ IterIdle /\ TreeIdle /\ ViewIdle /\ IdsIdle

SpecCache == InitCache /\ [][CacheNext]_vars

\* One call of iterate_with_balance, consumed to its end.
InitIter == CacheInit /\ IterInit /\ TreeIdle /\ ViewIdle /\ IdsIdle

SpecIter == InitIter /\ [][IterNext]_vars

\* Any tree rendered any number of times, from any start node and with any
\* list of operating currencies.
InitTree == CacheInit /\ IterIdle /\ TreeInit /\ ViewIdle /\ IdsIdle

SpecTree == InitTree /\ [][TreeNext]_vars

\* Views of every kind constructed over any ledger.
InitView == CacheInit /\ IterIdle /\ TreeIdle /\ ViewInit /\ IdsIdle

SpecView == InitView /\ [][ViewNext]_vars

\* One call of compute_ids on any collection of strings.
InitIds == CacheInit /\ IterIdle /\ TreeIdle /\ ViewIdle /\ IdsInit

SpecIds == InitIds /\ [][IdsNext]_vars

-----------------------------------------------------------------------------
(* Properties of the view cache, under SpecCache *)

\* The workers whose wrapper() has computed its viewid.
Keyed == { t \in Workers : pc[t] \in {"callback", "store", "redirect"} }

\* The step in which worker t's callback raises.
RaisesStep(t) == pc[t] = "callback" /\ pc'[t] = "idle"

\* The step in which worker t's wrapper() looks its key up.
LookupStep(t) == pc[t] = "wrapper" /\ pc'[t] # "wrapper"

\* C1: for concurrent lookups of one uncached scope key the view factory is
\* invoked at most once in total: no scope key ever has two Views built for it.
C1_SingleConstruction ==
    \A k \in AllKeys : built[k] <= 1

\* C2: a factory failure is not memoized. The step in which the callback
\* raises leaves the cache unchanged, so a key that was uncached stays
\* uncached; no failure is ever held as a cache entry (every entry is a built
\* View); and a lookup that finds the key of an earlier failure still
\* uncached goes to the factory again.
C2_FailureNotMemoized ==
    /\ [](\A k \in DOMAIN views : views[k] # 0 /\ built[k] >= 1)
    /\ [][\A t \in Workers :
            /\ RaisesStep(t) =>
                 /\ views' = views
                 /\ viewid[t] \in failed'
                 /\ (viewid[t] \notin DOMAIN views => viewid[t] \notin DOMAIN views')
            /\ (LookupStep(t) /\ viewid'[t] \in failed
                              /\ viewid'[t] \notin DOMAIN views) =>
                 pc'[t] = "callback"]_vars

\* C2 witness: after a failure for a key that is still uncached, a later
\* lookup of that key is about to invoke the factory again.
C2_Witness ==
    \E t \in Workers :
        /\ pc[t] = "callback"
        /\ viewid[t] \in failed
        /\ viewid[t] \notin DOMAIN views
        /\ FactoryCanReturn(request[t].route)

\* C3: once a View is stored under a scope key the key is never removed and
\* its entry stays that same View (the key set only grows), and a lookup of
\* a cached key returns the cached View without invoking the factory.
C3_StableEntry ==
    [][/\ \A k \in DOMAIN views : k \in DOMAIN views' /\ views'[k] = views[k]
       /\ \A t \in Workers :
            (LookupStep(t) /\ viewid'[t] \in DOMAIN views) =>
                /\ pc'[t] = "redirect"
                /\ view'[t] = views[viewid'[t]]
                /\ built' = built]_vars

\* The scope of a request: its route and, except for All, its parameter.
SameScope(r1, r2) == r1.route = r2.route /\ r1.param = r2.param

\* The number of path segments that make the scope of a route.
ScopeSegments(route) == IF route = "all" THEN 2 ELSE 3

CountSep(s) == Cardinality({ i \in 1..Len(s) : s[i] = SEP })

\* key is the part of path that holds its first n segments: a prefix of the
\* path with n separators (one in front of each segment) that ends where
\* the next separator begins.
IsFirstSegments(key, path, n) ==
    /\ Len(key) < Len(path)
    /\ SubSeq(path, 1, Len(key)) = key
    /\ CountSep(key) = n
    /\ key[Len(key)] # SEP
    /\ path[Len(key) + 1] = SEP

\* C4: the scope key of a request is made of its first N path segments only
\* (2 for All, 3 for Year, Tag and Payee), so two requests get the same key
\* exactly when their scope variant and scope parameter are the same,
\* whatever their pages.
C4_ScopeKey ==
    /\ \A t \in Keyed :
          IsFirstSegments(viewid[t], RequestPath(request[t]),
                          ScopeSegments(request[t].route))
    /\ \A t1, t2 \in Keyed :
          SameScope(request[t1], request[t2]) <=> viewid[t1] = viewid[t2]

\* C4 witness: two requests for different pages of one Year scope hold the
\* same key.
C4_Witness ==
    \E t1, t2 \in Keyed :
        /\ request[t1].route = "year"
        /\ SameScope(request[t1], request[t2])
        /\ request[t1].page # request[t2].page
        /\ viewid[t1] = viewid[t2]

-----------------------------------------------------------------------------
(* Properties of iterate_with_balance, under SpecIter *)

EntryAt(i) == ItemEntry(entries[i])
DateAt(i) == Ledger[EntryAt(i)].date

\* The date run of input item i: a run begins at the first item and at
\* every item whose date differs from the date of the item before it.
RunOf(i) == Cardinality({ j \in 1..i : j = 1 \/ DateAt(j) # DateAt(j - 1) })

\* The Posting items of the input from item i on, in input order: all of
\* them when e is 0, else those of Transaction e within date run r.
RECURSIVE PostingsFrom(_, _, _)
PostingsFrom(i, e, r) ==
    IF i > Len(entries) THEN <<>>
    ELSE IF entries[i].isPosting /\ (e = 0 \/ (EntryAt(i) = e /\ RunOf(i) = r))
         THEN <<entries[i].ref>> \o PostingsFrom(i + 1, e, r)
         ELSE PostingsFrom(i + 1, e, r)

InputPostings == PostingsFrom(1, 0, 0)

\* The Posting items of Transaction e within date run r, in input order.
PostingsOfIn(e, r) == PostingsFrom(1, e, r)

\* The postings of the emitted records, in the order of emission.
RECURSIVE EmittedFrom(_)
EmittedFrom(i) ==
    IF i > Len(out) THEN <<>>
    ELSE (IF out[i].postings = None THEN <<>> ELSE out[i].postings[1])
           \o EmittedFrom(i + 1)

EmittedPostings == EmittedFrom(1)

\* The sum of two inventories, merged by lot.
AddInventory(a, b) ==
    [ l \in (DOMAIN a) \cup (DOMAIN b) |->
        (IF l \in DOMAIN a THEN a[l] ELSE 0) + (IF l \in DOMAIN b THEN b[l] ELSE 0) ]

\* The sum of the changes of the first n emitted records.
RECURSIVE SumChanges(_)
SumChanges(n) ==
    IF n = 0 THEN EmptyInventory
    ELSE IF out[n].change = None THEN SumChanges(n - 1)
         ELSE AddInventory(SumChanges(n - 1), out[n].change[1])

\* The iteration is over: the generator returned, or it raised.
Ended == ipc \in {"done", "error"}

\* C5: once the whole input has been consumed, the running balance is the
\* sum of the positions of all Posting items of the input, merged by lot,
\* whatever the order and grouping of the emitted records.
C5_FinalBalance ==
    ipc = "done" => balance = AddPostings(EmptyInventory, InputPostings)

\* C5 witness: a consumed input of three Posting items that were emitted in
\* another order than they were given (two of them grouped).
C5_Witness ==
    /\ ipc = "done"
    /\ Len(InputPostings) >= 3
    /\ EmittedPostings # InputPostings

\* C6: when postings of one Transaction appear as Posting items within one
\* date run, exactly one record is emitted for that Transaction in that run;
\* its grouped postings are those postings in input order and its change is
\* the sum of their positions.
C6_OneRecordPerTransaction ==
    Ended =>
      \A r \in 1..Len(entries), e \in EntryIds :
        PostingsOfIn(e, r) # <<>> =>
          LET recs == { i \in 1..Len(out) : out[i].run = r /\ out[i].entry = e }
          IN /\ Cardinality(recs) = 1
             /\ \A i \in recs :
                  /\ out[i].postings = Some(PostingsOfIn(e, r))
                  /\ out[i].change =
                       Some(AddPostings(EmptyInventory, PostingsOfIn(e, r)))

\* C7: every record emitted for an entry that is not a Transaction has a
\* null change, and the running balance is the same before and after it.
C7_NullChange ==
    \A i \in 1..Len(out) :
        Ledger[out[i].entry].type # "Transaction" =>
            /\ out[i].change = None
            /\ out[i].balance = Some(out[i].before)

\* C7 witness: a record of a non-Transaction entry emitted while the running
\* balance holds positions.
C7_Witness ==
    \E i \in 1..Len(out) :
        /\ Ledger[out[i].entry].type # "Transaction"
        /\ out[i].before # EmptyInventory

\* C8: records are emitted in input order: the records of an earlier date run
\* come before those of a later one, and within a run they come in the order
\* in which their entries were first seen in the input.
C8_InputOrder ==
    /\ \A i \in 1..Len(out) :
          /\ out[i].first \in 1..Len(entries)
          /\ out[i].entry = EntryAt(out[i].first)
          /\ out[i].run = RunOf(out[i].first)
          /\ out[i].postings # None =>
               \A j \in 1..(out[i].first - 1) :
                  ~(RunOf(j) = out[i].run /\ entries[j].isPosting
                                          /\ EntryAt(j) = out[i].entry)
    /\ \A i, j \in 1..Len(out) :
          i < j => (out[i].first < out[j].first /\ out[i].run <= out[j].run)

\* C8 witness: three records, two of one date run and then one of a later
\* run.
C8_Witness ==
    /\ Len(out) = 3
    /\ out[1].run = out[2].run
    /\ out[2].run < out[3].run

\* C9: the balance carried by a record is non-null and is the sum of the
\* changes of the records emitted up to and including it.
C9_BalanceAtEmission ==
    \A i \in 1..Len(out) :
        /\ out[i].balance # None
        /\ out[i].balance[1] = SumChanges(i)

\* C9 witness: a second record with a change, whose balance also holds the
\* change of the first record, while a buffered pair with postings is not
\* emitted yet.
C9_Witness ==
    /\ Len(out) = 2
    /\ out[1].change # None
    /\ out[2].change # None
    /\ out[2].balance # out[2].change
    /\ ipc = "flush"
    /\ pos = Len(entries)
    /\ entries[pos].isPosting

\* C10: for every finite input of n items the iteration ends after at most n
\* records with the same-date buffer empty; an empty input gives no record.
C10_EndsEmpty ==
    /\ Ended => (date_entries = <<>> /\ Len(out) <= Len(entries))
    /\ Len(out) <= Len(entries)
    /\ entries = <<>> => out = <<>>

\* The input items that are a Transaction given directly, as an entry.
DirectTransactions ==
    { j \in 1..Len(entries) :
        ~entries[j].isPosting /\ Ledger[entries[j].ref].type = "Transaction" }

\* C29: a Transaction given directly, as an entry and not through one of its
\* Posting items, is emitted with a null posting list and a null change, and
\* the running balance is not changed by it, even though the Transaction has
\* postings: every record that stems from such an item is so, and an iteration
\* that has returned has emitted one for each such item.
C29_DirectTransactionNull ==
    /\ \A i \in 1..Len(out) :
          out[i].first \in DirectTransactions =>
              /\ out[i].entry = entries[out[i].first].ref
              /\ out[i].postings = None
              /\ out[i].change = None
              /\ out[i].balance = Some(out[i].before)
    /\ ipc = "done" =>
          \A j \in DirectTransactions : \E i \in 1..Len(out) : out[i].first = j

\* C29 witness: the iteration has returned and has emitted the record of a
\* Transaction with postings that was given directly, while the running
\* balance held positions.
C29_Witness ==
    /\ ipc = "done"
    /\ \E i \in 1..Len(out) :
          /\ out[i].first \in DirectTransactions
          /\ \E p \in PostingIds : PostingTable[p].entry = out[i].entry
          /\ out[i].before # EmptyInventory

\* C30: for any input sequence, including one where a Transaction appears in
\* the same date run both directly and as the parent of Posting items, the
\* iteration completes, and every Posting item of the input is in the grouped
\* postings of exactly one emitted record, whose entry is the posting's parent
\* Transaction.
C30_CompletesWithEveryPosting ==
    /\ ipc # "error"
    /\ ipc = "done" =>
          \A j \in 1..Len(entries) :
              entries[j].isPosting =>
                  LET recs == { i \in 1..Len(out) :
                                  /\ out[i].postings # None
                                  /\ out[i].run = RunOf(j)
                                  /\ entries[j].ref \in Range(out[i].postings[1]) }
                  IN  /\ Cardinality(recs) = 1
                      /\ \A i \in recs : out[i].entry = PostingTable[entries[j].ref].entry

\* C31: the balance carried by a record keeps the value it had when the record
\* was emitted: a consumer that collects all the records first and reads them
\* after the iteration has ended finds in each record the running balance as
\* of that record.
C31_BalanceKeepsEmissionValue ==
    ipc = "done" =>
        \A i \in 1..Len(out) : CarriedBalance(out[i]) = out[i].balance

-----------------------------------------------------------------------------
(* Properties of the rendering of account trees, under SpecTree *)

\* The node, or one of its descendants, has a direct posting that is not an
\* Open.
HasActivity(n) ==
    \E d \in DOMAIN tree :
        /\ IsPrefix(n, d)
        /\ \E i \in DOMAIN tree[d].postings : tree[d].postings[i].kind # "Open"

\* The nodes of the subtree the traversal starts from.
Traversed ==
    { n \in DOMAIN tree : start_node_name \in DOMAIN tree /\ IsPrefix(start_node_name, n) }

\* The nodes that have a row in the table so far.
RowNames == { rows[i].name : i \in DOMAIN rows }

\* C11: in table_of_balances a node of the traversed subtree gets a row if
\* and only if it is active (it or one of its descendants has a direct posting
\* that is not an Open) or it is a category root; a category root gets a row
\* even with no activity at all. No other node ever has a row, and the table
\* that is returned has a row for each of these.
C11_RowIffActiveOrRoot ==
    /\ \A n \in RowNames : n \in Traversed /\ (HasActivity(n) \/ is_account_root(n))
    /\ rpc = "done" =>
          \A n \in Traversed : (HasActivity(n) \/ is_account_root(n)) => n \in RowNames

\* C11 witness: a returned table with the row of a category root without any
\* activity, with the row of an active node that is not a category root, and
\* without a row for an inactive node of the subtree that has an Open.
C11_Witness ==
    /\ rpc = "done"
    /\ \E n \in RowNames : ~HasActivity(n)
    /\ \E n \in RowNames : ~is_account_root(n)
    /\ \E n \in Traversed : n \notin RowNames /\ tree[n].postings # <<>>

\* The cells among the first k of a row that show the position: a number cell
\* of the position's currency with its number.
NumberCellsOf(cells, k, position) ==
    { j \in 1..k : /\ cells[j].kind = "number"
                   /\ cells[j].number = position.number
                   /\ Lot(currencies[j], 0) = position.lot }

\* The number of times the residual cell lists the position.
TimesInOther(cell, position) ==
    Cardinality({ j \in DOMAIN cell.positions : cell.positions[j] = position })

\* A row of the node: one cell per operating currency and then the residual
\* cell, every position of the balance at cost in exactly one of them.
WellFormedRow(row) ==
    LET k == Len(currencies)
        positions == GetPositions(GetCost(tree[row.name].balance))
    IN  /\ Len(row.cells) = k + 1
        /\ \A j \in 1..k : row.cells[j].kind \in {"number", "blank"}
        /\ row.cells[k + 1].kind = "other"
        /\ \A i \in DOMAIN positions :
              LET position == positions[i]
                  shown == NumberCellsOf(row.cells, k, position)
                  other == TimesInOther(row.cells[k + 1], position)
              IN  IF \E j \in 1..k : Lot(currencies[j], 0) = position.lot
                  THEN Cardinality(shown) = 1 /\ other = 0
                  ELSE shown = {} /\ other = 1

\* C12: for any ordered list of operating currencies, every rendered row has
\* exactly one cell per operating currency followed by exactly one residual
\* cell, and every position of the node's balance at cost is in exactly one of
\* these cells: the cell of its currency when it matches an operating currency,
\* the residual cell otherwise.
C12_CurrencyCells == \A r \in DOMAIN rows : WellFormedRow(rows[r])

\* C12 witness: a row of two operating currencies with a number in the cell of
\* one, the cell of the other blank, and a position left to the residual cell.
C12_Witness ==
    \E r \in DOMAIN rows :
        /\ Len(rows[r].cells) = 3
        /\ \E j \in 1..2 : rows[r].cells[j].kind = "number"
        /\ \E j \in 1..2 : rows[r].cells[j].kind = "blank"
        /\ rows[r].cells[3].positions # <<>>

\* C13: rendering an account tree, from any start node, with any list of
\* currencies, any number of times, leaves the balance, the direct postings and
\* the children of every node as they were.
C13_TreeUnchanged == [][tree' = tree]_vars

\* C13 witness: a table has been returned in which a row shows a position in
\* the cell of its currency, so that the position was removed from the list the
\* residual cell is made of.
C13_Witness ==
    /\ rpc = "done"
    /\ \E r \in DOMAIN rows : \E j \in DOMAIN rows[r].cells : rows[r].cells[j].kind = "number"
    /\ \E r \in DOMAIN rows :
          rows[r].cells[Len(rows[r].cells)].positions # <<>>

\* The place of the row of a node in the table.
RowAt(n) == CHOOSE r \in DOMAIN rows : rows[r].name = n

\* The ancestors of a node that lie in the rendered subtree.
AncestorsInSubtree(n) ==
    { a \in DOMAIN tree : a # n /\ IsPrefix(a, n) /\ IsPrefix(start_node_name, a) }

-----------------------------------------------------------------------------
(* Properties of the construction of views, under SpecView *)

\* _realize has the result of the filter.
Filtered == vpc \in {"opening", "transfer", "realize_opening", "realize",
                     "realize_closing", "done"}

\* The balance of the node of that name in a tree, 0 without such a node.
NodeBalance(t, name) == IF name \in DOMAIN t THEN t[name] ELSE 0

\* The place of an entry in a list that holds it once.
IndexIn(es, e) == CHOOSE j \in DOMAIN es : es[j] = e

\* kept holds exactly the entries of source that satisfy Wanted, each once and
\* in the order of source.
KeepsExactly(kept, source, Wanted(_)) ==
    /\ \A i \in DOMAIN kept : kept[i] \in Range(source) /\ Wanted(kept[i])
    /\ \A j \in DOMAIN source : Wanted(source[j]) => source[j] \in Range(kept)
    /\ \A i, k \in DOMAIN kept : i < k => IndexIn(source, kept[i]) < IndexIn(source, kept[k])

NetIncomeName == <<"Equity", "NetIncome">>

\* C14 as stated: for any filtered entry set, in the closing tree the total over
\* Income plus the total over Expenses plus the balance of the net-income
\* sub-account of Equity is zero.
C14_ClosingSumsToZero ==
    vpc = "done" =>
        LET closing == self.closing_real_accounts[1]
        IN  NodeBalance(closing, <<"Income">>) + NodeBalance(closing, <<"Expenses">>)
              + NodeBalance(closing, NetIncomeName) = 0

\* C14: for any filtered entry set, in the closing tree the total over Income
\* and the total over Expenses are both zero and the net-income sub-account of
\* Equity holds what the main tree has in it plus the main tree's totals over
\* Income and Expenses; the closing tree is never there before the entries with
\* the transfer are, and it is realized from them.
C14_ClosingNetIncome ==
    /\ self.closing_real_accounts # None => self.closing_entries # None
    /\ vpc = "done" =>
        LET closing == self.closing_real_accounts[1]
            main    == self.real_accounts[1]
        IN  /\ NodeBalance(closing, <<"Income">>) = 0
            /\ NodeBalance(closing, <<"Expenses">>) = 0
            /\ NodeBalance(closing, NetIncomeName) =
                  NodeBalance(main, NetIncomeName) + NodeBalance(main, <<"Income">>)
                    + NodeBalance(main, <<"Expenses">>)

\* C14 witness: a view is constructed whose main tree has balances in Income
\* and in Expenses that do not cancel, and whose closing entries end with the
\* transfers.
C14_Witness ==
    /\ vpc = "done"
    /\ NodeBalance(self.real_accounts[1], <<"Income">>) # 0
    /\ NodeBalance(self.real_accounts[1], <<"Expenses">>) # 0
    /\ NodeBalance(self.closing_real_accounts[1], NetIncomeName) # 0
    /\ Len(self.closing_entries[1]) = Len(self.entries[1]) + 2

\* C15: after construction opening_entries and opening_real_accounts are absent
\* exactly when the filter returned no opening boundary; when it returned the
\* index i, opening_entries is the prefix of the filtered entries before i and
\* the opening tree is realized from it.
C15_OpeningAbsence ==
    vpc = "done" =>
        /\ self.opening_entries = None <=> self.begin_index = None
        /\ self.opening_real_accounts = None <=> self.begin_index = None
        /\ self.begin_index # None =>
              LET prefix == SubSeq(self.entries[1], 1, self.begin_index[1])
              IN  /\ self.opening_entries = Some(prefix)
                  /\ self.opening_real_accounts = Some(Realize(prefix))

\* C16: the filtered entries of the All view are the full entry list in its
\* order, nothing added or dropped, and it has no opening boundary.
C16_AllKeepsEverything ==
    (scope.kind = "all" /\ Filtered) =>
        /\ self.entries = Some(all_entries)
        /\ self.begin_index = None

\* C16 witness: an All view is constructed over a ledger that holds
\* Transactions and an entry that is no Transaction.
C16_Witness ==
    /\ scope.kind = "all"
    /\ vpc = "done"
    /\ \E i, j \in DOMAIN all_entries :
          all_entries[i].type = "Transaction" /\ all_entries[j].type # "Transaction"

\* C17: the filtered entries of the Tag view are exactly the Transactions whose
\* tags have a tag in common with the requested set, in their original order;
\* no other entry is kept, and it has no opening boundary.
C17_TagKeepsIntersecting ==
    (scope.kind = "tag" /\ Filtered) =>
        /\ KeepsExactly(self.entries[1], all_entries,
                        LAMBDA e : e.type = "Transaction"
                                     /\ \E tg \in scope.tags : tg \in e.tags)
        /\ self.begin_index = None

\* C17 witness: a Tag view of two tags is constructed over a ledger with a
\* Transaction that has one of them only, a Transaction without tags and an
\* entry that is no Transaction; two entries are kept.
C17_Witness ==
    /\ scope.kind = "tag"
    /\ vpc = "done"
    /\ Cardinality(scope.tags) = 2
    /\ Len(self.entries[1]) = 2
    /\ \E i \in DOMAIN all_entries :
          Cardinality(all_entries[i].tags) = 1
    /\ \E i, j \in DOMAIN all_entries :
          /\ all_entries[i].type = "Transaction" /\ all_entries[i].tags = {}
          /\ all_entries[j].type # "Transaction"

\* C18: the filtered entries of the Payee view are exactly the Transactions
\* whose payee is the requested payee, in their original order; no other entry
\* is kept, and it has no opening boundary.
C18_PayeeKeepsEqual ==
    (scope.kind = "payee" /\ Filtered) =>
        /\ KeepsExactly(self.entries[1], all_entries,
                        LAMBDA e : e.type = "Transaction" /\ e.payee = scope.payee)
        /\ self.begin_index = None

\* C18 witness: a Payee view is constructed over a ledger with two
\* Transactions of the payee, a Transaction of another payee and an entry that
\* is no Transaction.
C18_Witness ==
    /\ scope.kind = "payee"
    /\ vpc = "done"
    /\ Len(self.entries[1]) = 2
    /\ \E i, j \in DOMAIN all_entries :
          /\ all_entries[i].type = "Transaction" /\ all_entries[i].payee # scope.payee
          /\ all_entries[j].type # "Transaction"

\* The first day of a year.
January1(year) == year * 10000 + 101

\* C19: the Year view of y clamps the full entry list to the days from
\* January 1 of y up to, and without, January 1 of y+1; its filtered entries and
\* its opening boundary are those of the clamp: synthesized entries up to the
\* boundary, then the entries of the ledger in the window, in their order; and
\* opening_entries is the synthesized prefix.
C19_YearWindow ==
    (scope.kind = "year" /\ Filtered) =>
        /\ self.begin_index # None
        /\ LET es  == self.entries[1]
               idx == self.begin_index[1]
           IN  /\ idx <= Len(es)
               /\ \A k \in 1..idx : es[k].id = 0
               /\ KeepsExactly(SubSeq(es, idx + 1, Len(es)), all_entries,
                               LAMBDA e : /\ January1(scope.year) <= e.date
                                          /\ e.date < January1(scope.year + 1))
               /\ vpc # "opening" => self.opening_entries = Some(SubSeq(es, 1, idx))

\* C19 witness: a Year view is constructed over a ledger with an entry before
\* the year, entries on its January 1 and on its December 31, and an entry on
\* the next January 1: three entries follow the synthesized ones.
C19_Witness ==
    /\ scope.kind = "year"
    /\ vpc = "done"
    /\ self.begin_index # None
    /\ self.begin_index[1] > 0
    /\ Len(self.entries[1]) = self.begin_index[1] + 3
    /\ \E i, j, k, l \in DOMAIN all_entries :
          /\ all_entries[i].date < January1(scope.year)
          /\ all_entries[j].date = January1(scope.year)
          /\ all_entries[k].date = scope.year * 10000 + 1231
          /\ all_entries[l].date = January1(scope.year + 1)

\* The filter of the view matches no entry of the ledger.
NoMatch ==
    CASE scope.kind = "year" ->
            \A i \in DOMAIN all_entries :
                ~(January1(scope.year) <= all_entries[i].date
                    /\ all_entries[i].date < January1(scope.year + 1))
      [] scope.kind = "tag" ->
            \A i \in DOMAIN all_entries :
                ~(all_entries[i].type = "Transaction"
                    /\ all_entries[i].tags \cap scope.tags # {})
      [] scope.kind = "payee" ->
            \A i \in DOMAIN all_entries :
                ~(all_entries[i].type = "Transaction"
                    /\ all_entries[i].payee = scope.payee)
      [] OTHER -> FALSE

-----------------------------------------------------------------------------
(* Properties of compute_ids, under SpecIds *)

\* The scheme gives distinct ids to the distinct strings of the set.
Distinguishes(scheme, S) ==
    \A x, y \in S : x # y => ReSub(scheme, x) # ReSub(scheme, y)

\* The pairs a scheme gives for a set of strings, in the order of the ids.
PairsOf(scheme, S) == Sorted({ <<ReSub(scheme, x), x>> : x \in S })

\* What a set of distinct strings determines: the pairs of the first scheme
\* that tells its strings apart, or no mapping.
OutcomeOf(S) ==
    IF Distinguishes(Schemes[1], S) THEN Some(PairsOf(Schemes[1], S))
    ELSE IF Distinguishes(Schemes[2], S) THEN Some(PairsOf(Schemes[2], S))
    ELSE None

\* C23: for any collection of strings, compute_ids either fails or returns
\* pairs (id, string) in which every distinct input string appears exactly once
\* and no two distinct strings have the same id; whether it fails and what it
\* returns is determined by the set of the distinct input strings, whatever
\* their order and repetition and whatever the order the set is walked in.
C23_IdsUnique ==
    /\ cpc = "done" =>
          LET pairs == result[1]
          IN  /\ \A x \in Range(strings) :
                    Cardinality({ i \in DOMAIN pairs : pairs[i][2] = x }) = 1
              /\ \A i \in DOMAIN pairs : pairs[i][2] \in Range(strings)
              /\ \A i, j \in DOMAIN pairs : pairs[i][1] = pairs[j][1] => i = j
              /\ result = OutcomeOf(Range(strings))
    /\ cpc = "error" => OutcomeOf(Range(strings)) = None

\* C23 witness: two strings given in an order other than that of their ids, and
\* returned as two pairs.
C23_Witness ==
    /\ cpc = "done"
    /\ Len(strings) = 2
    /\ Len(result[1]) = 2
    /\ result[1][1][2] = strings[2]

\* The simple substitution: every character other than a letter, a digit, '-'
\* and '.' becomes '_'.
SimpleId(x) == [i \in DOMAIN x |-> IF x[i] \in Alnum \cup {"-", "."} THEN x[i] ELSE "_"]

\* The stricter substitution: only the letters and digits are kept.
StricterId(x) == SelectSeq(x, LAMBDA c : c \in Alnum)

SimpleCollides(S) == \E x, y \in S : x # y /\ SimpleId(x) = SimpleId(y)

StricterCollides(S) == \E x, y \in S : x # y /\ StricterId(x) = StricterId(y)

\* C24: compute_ids uses the simple substitution when it gives distinct ids to
\* all input strings; it uses the stricter one only when the simple one
\* collides; and it fails if and only if both collide, and then returns no
\* mapping.
C24_SchemeChoice ==
    LET S == Range(strings)
    IN  /\ (cpc = "done" /\ ~SimpleCollides(S)) =>
              \A i \in DOMAIN result[1] : result[1][i][1] = SimpleId(result[1][i][2])
        /\ (cpc = "done" /\ SimpleCollides(S)) =>
              \A i \in DOMAIN result[1] : result[1][i][1] = StricterId(result[1][i][2])
        /\ cpc = "error" => (SimpleCollides(S) /\ StricterCollides(S) /\ result = None)
        /\ cpc = "done" => ~(SimpleCollides(S) /\ StricterCollides(S))

\* C24 witness: two strings that both substitutions map to one id each: the
\* call has failed after the stricter substitution was tried.
C24_Witness ==
    /\ cpc = "error"
    /\ scheme_i = 2
    /\ Cardinality(Range(strings)) = 2
    /\ result = None

-----------------------------------------------------------------------------
(* Failures of the construction and the pages of a View, under SpecView *)

RealizeSteps == {"realize_opening", "realize", "realize_closing"}

C22_SharedDataUnchanged ==
    [][ /\ all_entries' = all_entries
        /\ (vpc = "done" /\ vpc' = "done") => self' = self ]_vars

\* C22 witness: a page was rendered of a View whose entries are not those of
\* the ledger, which still holds an entry the View has not.
C22_Witness ==
    /\ vpc = "done"
    /\ page # None
    /\ Len(self.entries[1]) < Len(all_entries)
    /\ self.title.text # "All Transactions"

\* C27: the opening-balances page of a View that has no opening tree renders
\* the placeholder 'N/A' and does not fail; it renders the balance-sheet tables
\* of the opening tree exactly when the opening tree is present.
C27_OpenbalPlaceholder ==
    /\ vpc = "done" => ENABLED Openbal
    /\ (vpc = "done" /\ page # None /\ page[1].pagetitle = "Opening Balances") =>
          IF self.opening_real_accounts = None
          THEN page[1].text = "N/A" /\ page[1].tables = None
          ELSE /\ page[1].text # "N/A"
               /\ page[1].tables =
                     Some(balance_sheet_table(self.opening_real_accounts[1], Options))

\* C27 witness: the opening-balances page of a year whose clamp found nothing
\* before the year, and has an index all the same.
C27_Witness ==
    /\ vpc = "done"
    /\ page # None
    /\ page[1].pagetitle = "Opening Balances"
    /\ page[1].text = "N/A"
    /\ self.begin_index # None
    /\ self.entries[1] # <<>>

-----------------------------------------------------------------------------
(* Construction and the cache, under SpecCache *)

\* C25: a View becomes visible through the cache only after its construction
\* has completed: under every interleaving, every View that app.views holds and
\* every View that a request has obtained has its main and closing trees, and a
\* View under construction is in no entry of the cache.
C25_VisibleOnlyWhenConstructed ==
    /\ \A k \in DOMAIN views : views[k] \in realized
    /\ \A t \in Workers : view[t] # 0 => view[t] \in realized
    /\ \A t \in Workers : constructing[t] # 0 =>
          /\ constructing[t] \notin realized
          /\ \A k \in DOMAIN views : views[k] # constructing[t]

\* C25 witness: a request holds the View that the cache holds under its key
\* while another View is under construction for another request.
C25_Witness ==
    \E t, u \in Workers :
        /\ pc[t] = "redirect"
        /\ viewid[t] \in DOMAIN views
        /\ views[viewid[t]] = view[t]
        /\ view[t] \in realized
        /\ pc[u] = "realizing"
        /\ constructing[u] \notin realized

\* The scope keys of the Tag and Payee routes.
TagPayeeKeys ==
    { ViewId(RequestPath(r), path_depth(r.route)) : r \in { q \in Routed : q.route \in {"tag", "payee"} } }

\* C26: a request for a Tag scope or a Payee scope whose key is not yet cached
\* builds the View for that tag or payee and stores it in the cache under the
\* scope key, so that a second request for the same scope does not build it
\* again: the callback of such a request goes on to construct the View, and
\* none ends with the failure of its factory.
C26_TagPayeeBuiltAndStored ==
    [][ \A t \in Workers :
          (pc[t] = "callback" /\ viewid[t] \in TagPayeeKeys /\ pc'[t] # "callback")
             => (pc'[t] = "realizing" /\ failed' = failed) ]_vars

====
